---- MODULE Spec2Model ----
(***************************************************************************)
(* Model of bot.py: the per-user "one door" session state machine, its     *)
(* three update handlers (start, handle_message, on_callback_query) and    *)
(* the startup routine main().                                             *)
(***************************************************************************)
EXTENDS Integers, Sequences, FiniteSets, Bags, TLC

\* ---------------------------------------------------------------- bounds
NumUsers == 2
MaxEvents == 4
\* handler coroutines that may be suspended at the same time
MaxInFlight == 2

Users == 1..NumUsers

\* ------------------------------------------------------------- constants
STATE_NEW == "new"
STATE_DOOR_SHOWN == "door_shown"
STATE_CLOSED == "closed"
\* the value dict.get returns for a key without an entry
None == "None"

States == {STATE_NEW, STATE_DOOR_SHOWN, STATE_CLOSED}

\* callback_data values a button press can carry
Payloads == {"open_intro", "open_door", "other"}

\* values os.getenv("BOT_TOKEN") can yield: unset, set but empty, set
Tokens == {None, "", "token"}

\* the fixed texts
LOCKOUT == "door already closed"
INTRO == "one door today - ready?"
DOOR == "door art - only if you really want"
TEXT_1 == "sometimes nothing behind the door"
TEXT_2 == "but not today - gift"
CLOSING == "door is closing"
FINAL == "closed - have a bright day"

NoKeyboard == "no_keyboard"

\* ------------------------------------------------------- handler effects
\* One record per state write or outbound call, in program order.
Write(s) == [op |-> "write", arg |-> s, kb |-> NoKeyboard]
Reply(text, kb) == [op |-> "reply_text", arg |-> text, kb |-> kb]
EditText(text, kb) == [op |-> "edit_message_text", arg |-> text, kb |-> kb]
Answer == [op |-> "answer", arg |-> "", kb |-> NoKeyboard]

LockoutReply == Reply(LOCKOUT, NoKeyboard)
LockoutEdit == EditText(LOCKOUT, NoKeyboard)
IntroReply == Reply(INTRO, "open_intro")
DoorEdit == EditText(DOOR, "open_door")

\* mutant: the gift text is sent before the empty-space edit
GiftSequence_GiftFirst ==
    << Reply(TEXT_2, NoKeyboard),
       EditText(TEXT_1, NoKeyboard),
       Reply(CLOSING, NoKeyboard),
       Reply(FINAL, NoKeyboard) >>

GiftSequence ==
    << EditText(TEXT_1, NoKeyboard),
       Reply(TEXT_2, NoKeyboard),
       Reply(CLOSING, NoKeyboard),
       Reply(FINAL, NoKeyboard) >>

\* user_states.get(user_id)
Get(d, u) == IF u \in DOMAIN d THEN d[u] ELSE None

\* mutant: one state shared by all users instead of one entry per user
Put_AllKeys(d, u, s) == [v \in Users |-> s]

\* user_states[user_id] = s
Put(d, u, s) == [v \in (DOMAIN d) \cup {u} |-> IF v = u THEN s ELSE d[v]]

\* mutant: start() without the check for a closed door
StartEffects_NoClosedCheck(hasMessage, state) ==
    IF ~hasMessage THEN << >>
    ELSE << Write(STATE_NEW), IntroReply >>

\* mutant: start() keeps a door that is already shown
StartEffects_KeepDoor(hasMessage, state) ==
    IF ~hasMessage THEN << >>
    ELSE IF state = STATE_CLOSED THEN << LockoutReply >>
    ELSE IF state = STATE_DOOR_SHOWN THEN << IntroReply >>
    ELSE << Write(STATE_NEW), IntroReply >>

\* mutant: start() without the guard on update.message; the reply on the
\* missing message raises after the state was written
StartEffects_NoMessageGuard(hasMessage, state) ==
    IF state = STATE_CLOSED
    THEN (IF hasMessage THEN << LockoutReply >> ELSE << >>)
    ELSE (IF hasMessage THEN << Write(STATE_NEW), IntroReply >>
                        ELSE << Write(STATE_NEW) >>)

\* mutant: start() stores the state after the reply has been awaited
StartEffects_WriteAfterReply(hasMessage, state) ==
    IF ~hasMessage THEN << >>
    ELSE IF state = STATE_CLOSED THEN << LockoutReply >>
    ELSE << IntroReply, Write(STATE_NEW) >>

\* body of start(): hasMessage is "update.message is not None",
\* state is the value read from user_states
StartEffects(hasMessage, state) ==
    IF ~hasMessage THEN << >>
    ELSE IF state = STATE_CLOSED THEN << LockoutReply >>
    ELSE << Write(STATE_NEW), IntroReply >>

\* mutant: handle_message() answers known users only
HandleMessageEffects_KnownOnly(hasMessage, state) ==
    IF ~hasMessage THEN << >>
    ELSE IF state = STATE_CLOSED THEN << LockoutReply >>
    ELSE IF state = None THEN << >>
    ELSE StartEffects(hasMessage, state)

\* body of handle_message(); the call of start() re-reads the same entry
\* with no suspension point in between
HandleMessageEffects(hasMessage, state) ==
    IF ~hasMessage THEN << >>
    ELSE IF state = STATE_CLOSED THEN << LockoutReply >>
    ELSE StartEffects(hasMessage, state)

\* mutant: on_callback_query() tests the payload before the closed door
CallbackEffects_IntroFirst(hasQuery, state, data) ==
    IF ~hasQuery THEN << >>
    ELSE << Answer >> \o
         ( IF data = "open_intro"
                THEN << Write(STATE_DOOR_SHOWN), DoorEdit >>
           ELSE IF state = STATE_CLOSED THEN << LockoutEdit >>
           ELSE IF data = "open_door" /\ state = STATE_DOOR_SHOWN
                THEN << Write(STATE_CLOSED) >> \o GiftSequence
           ELSE << >> )

\* mutant: on_callback_query() opens the door without testing the state
CallbackEffects_NoDoorCheck(hasQuery, state, data) ==
    IF ~hasQuery THEN << >>
    ELSE << Answer >> \o
         ( IF state = STATE_CLOSED THEN << LockoutEdit >>
           ELSE IF data = "open_intro"
                THEN << Write(STATE_DOOR_SHOWN), DoorEdit >>
           ELSE IF data = "open_door"
                THEN << Write(STATE_CLOSED) >> \o GiftSequence
           ELSE << >> )

\* mutant: the door visual is sent as a new message instead of an edit
CallbackEffects_DoorAsReply(hasQuery, state, data) ==
    IF ~hasQuery THEN << >>
    ELSE << Answer >> \o
         ( IF state = STATE_CLOSED THEN << LockoutEdit >>
           ELSE IF data = "open_intro"
                THEN << Write(STATE_DOOR_SHOWN), Reply(DOOR, "open_door") >>
           ELSE IF data = "open_door" /\ state = STATE_DOOR_SHOWN
                THEN << Write(STATE_CLOSED) >> \o GiftSequence
           ELSE << >> )

\* mutant: every payload other than open_door is taken for open_intro
CallbackEffects_UnknownAsIntro(hasQuery, state, data) ==
    IF ~hasQuery THEN << >>
    ELSE << Answer >> \o
         ( IF state = STATE_CLOSED THEN << LockoutEdit >>
           ELSE IF data # "open_door"
                THEN << Write(STATE_DOOR_SHOWN), DoorEdit >>
           ELSE IF data = "open_door" /\ state = STATE_DOOR_SHOWN
                THEN << Write(STATE_CLOSED) >> \o GiftSequence
           ELSE << >> )

\* mutant: an ignored press stores the state it has read
CallbackEffects_StoreOnIgnore(hasQuery, state, data) ==
    IF ~hasQuery THEN << >>
    ELSE << Answer >> \o
         ( IF state = STATE_CLOSED THEN << LockoutEdit >>
           ELSE IF data = "open_intro"
                THEN << Write(STATE_DOOR_SHOWN), DoorEdit >>
           ELSE IF data = "open_door" /\ state = STATE_DOOR_SHOWN
                THEN << Write(STATE_CLOSED) >> \o GiftSequence
           ELSE << Write(state) >> )

\* mutant: open_intro stores STATE_NEW instead of STATE_DOOR_SHOWN
CallbackEffects_IntroStoresNew(hasQuery, state, data) ==
    IF ~hasQuery THEN << >>
    ELSE << Answer >> \o
         ( IF state = STATE_CLOSED THEN << LockoutEdit >>
           ELSE IF data = "open_intro"
                THEN << Write(STATE_NEW), DoorEdit >>
           ELSE IF data = "open_door" /\ state = STATE_DOOR_SHOWN
                THEN << Write(STATE_CLOSED) >> \o GiftSequence
           ELSE << >> )

\* mutant: the door is marked closed after the four messages
CallbackEffects_CloseAfterGift(hasQuery, state, data) ==
    IF ~hasQuery THEN << >>
    ELSE << Answer >> \o
         ( IF state = STATE_CLOSED THEN << LockoutEdit >>
           ELSE IF data = "open_intro"
                THEN << Write(STATE_DOOR_SHOWN), DoorEdit >>
           ELSE IF data = "open_door" /\ state = STATE_DOOR_SHOWN
                THEN GiftSequence \o << Write(STATE_CLOSED) >>
           ELSE << >> )

\* body of on_callback_query(): hasQuery is "update.callback_query is not None"
CallbackEffects(hasQuery, state, data) ==
    IF ~hasQuery THEN << >>
    ELSE << Answer >> \o
         ( IF state = STATE_CLOSED THEN << LockoutEdit >>
           ELSE IF data = "open_intro"
                THEN << Write(STATE_DOOR_SHOWN), DoorEdit >>
           ELSE IF data = "open_door" /\ state = STATE_DOOR_SHOWN
                THEN << Write(STATE_CLOSED) >> \o GiftSequence
           ELSE << >> )

\* the state map after the writes of an effect list for user u
RECURSIVE ApplyWrites(_, _, _)
ApplyWrites(d, u, eff) ==
    IF eff = << >> THEN d
    ELSE ApplyWrites(IF Head(eff).op = "write" THEN Put(d, u, Head(eff).arg) ELSE d,
                     u, Tail(eff))

IsOutbound(e) == e.op # "write"
IsMessage(e) == e.op \in {"reply_text", "edit_message_text"}

\* outbound calls of an effect list, and those that send or edit a message
Outbound(eff) == SelectSeq(eff, IsOutbound)
Messages(eff) == SelectSeq(eff, IsMessage)

\* ------------------------------------------------- suspension points
\* Every outbound call is awaited: the coroutine is suspended there and
\* other coroutines may run before it is resumed.
IsAwait(e) == e.op \in {"answer", "reply_text", "edit_message_text"}

Calls(eff) == SelectSeq(eff, IsAwait)

\* position of the first awaited call of an effect list, 0 if none
FirstCall(eff) ==
    IF \E i \in 1..Len(eff) : IsAwait(eff[i])
    THEN CHOOSE i \in 1..Len(eff) :
            IsAwait(eff[i]) /\ \A j \in 1..(i - 1) : ~IsAwait(eff[j])
    ELSE 0

\* what runs without interruption: up to and including the next await
Atom(eff) == IF FirstCall(eff) = 0 THEN eff ELSE SubSeq(eff, 1, FirstCall(eff))

\* what is left after that await
After(eff) ==
    IF FirstCall(eff) = 0 THEN << >>
    ELSE SubSeq(eff, FirstCall(eff) + 1, Len(eff))

\* what is left after the first k awaits
RECURSIVE DropCalls(_, _)
DropCalls(eff, k) == IF k = 0 THEN eff ELSE DropCalls(After(eff), k - 1)

\* the handler an update of a kind is dispatched to, and its body
HandlerOf(kind) ==
    CASE kind = "start" -> "start"
      [] kind = "text" -> "handle_message"
      [] kind = "button" -> "on_callback_query"

Effects(kind, present, state, data) ==
    CASE kind = "start" -> StartEffects(present, state)
      [] kind = "text" -> HandleMessageEffects(present, state)
      [] kind = "button" -> CallbackEffects(present, state, data)

\* mutant: on_callback_query() reads the state before awaiting the answer
ReadsAfter_Zero(kind) == 0

\* number of awaits a handler completes before it reads user_states:
\* on_callback_query awaits query.answer() first, the others none
ReadsAfter(kind) == IF kind = "button" THEN 1 ELSE 0

\* marks the place of the state read among a coroutine's effects
Unread == "unread"
Read(s) == [op |-> "read", arg |-> s, kb |-> NoKeyboard]

\* a coroutine t runs its next atom against the state map d
RunAtom(t, d) ==
    LET k == Len(Calls(t.done)) IN
    IF t.read = Unread /\ t.present /\ k >= ReadsAfter(t.kind)
    THEN LET s == Get(d, t.user)
             eff == DropCalls(Effects(t.kind, t.present, s, t.data), k)
         IN  [t EXCEPT !.read = s,
                       !.done = @ \o << Read(s) >> \o Atom(eff),
                       !.rest = After(eff),
                       !.suspended = (FirstCall(eff) # 0)]
    ELSE IF t.read = Unread
    THEN LET eff == DropCalls(Effects(t.kind, t.present, None, t.data), k)
         IN  [t EXCEPT !.done = @ \o Atom(eff),
                       !.suspended = (FirstCall(eff) # 0)]
    ELSE [t EXCEPT !.done = @ \o Atom(t.rest),
                   !.rest = After(t.rest),
                   !.suspended = (FirstCall(t.rest) # 0)]

\* the effects a coroutine performed in the step from t to t1
Performed(t, t1) == SubSeq(t1.done, Len(t.done) + 1, Len(t1.done))

CountOf(eff, e) == Cardinality({ i \in 1..Len(eff) : eff[i] = e })

\* mutant: "if bot_token is None"
Truthy_NotNone(token) == token # None

\* "if not bot_token"
Truthy(token) == token # None /\ token # ""

\* ----------------------------------------------------------------- state
VARIABLES
    bot_token,     \* os.getenv("BOT_TOKEN")
    phase,         \* "boot", "failed" (RuntimeError raised) or "polling"
    handlers,      \* handlers registered with the application
    user_states,   \* the dict user id -> state
    trace,         \* history: per user, one record per update handled
    tasks,         \* bag of the handler coroutines suspended at an await
    serial,        \* state map of the same updates handled one at a time
    counts,        \* per user: writes of CLOSED and gift texts so far
    started        \* number of updates dispatched to a coroutine

conc == << tasks, serial, counts, started >>

vars == << bot_token, phase, handlers, user_states, trace, conc >>

Init ==
    /\ bot_token \in Tokens
    /\ phase = "boot"
    /\ handlers = {}
    /\ user_states = << >>
    /\ trace = [u \in Users |-> << >>]
    /\ tasks = EmptyBag
    /\ serial = << >>
    /\ counts = [u \in Users |-> [closes |-> 0, gifts |-> 0]]
    /\ started = 0

\* number of updates handled so far
RECURSIVE TotalLen(_, _)
TotalLen(t, S) ==
    IF S = {} THEN 0
    ELSE LET u == CHOOSE v \in S : TRUE IN Len(t[u]) + TotalLen(t, S \ {u})

\* main() with a missing or empty token: raises before building anything
MainFail ==
    /\ phase = "boot"
    /\ ~Truthy(bot_token)
    /\ phase' = "failed"
    /\ UNCHANGED << bot_token, handlers, user_states, trace, conc >>

\* main() with a token: registers the three handlers and starts polling
MainRun ==
    /\ phase = "boot"
    /\ Truthy(bot_token)
    /\ handlers' = {"start", "on_callback_query", "handle_message"}
    /\ phase' = "polling"
    /\ UNCHANGED << bot_token, user_states, trace, conc >>

\* an update is handled to completion by the handler it is dispatched to
Handle(h, u, kind, present, data, eff) ==
    /\ phase = "polling"
    /\ h \in handlers
    /\ TotalLen(trace, Users) < MaxEvents
    /\ user_states' = ApplyWrites(user_states, u, eff)
    /\ trace' = [trace EXCEPT ![u] = Append(@,
                  [user |-> u, kind |-> kind, present |-> present, data |-> data,
                   pre |-> Get(user_states, u),
                   post |-> Get(ApplyWrites(user_states, u, eff), u),
                   eff |-> eff])]
    /\ UNCHANGED << bot_token, phase, handlers, conc >>

Start ==
    \E u \in Users, hasMessage \in BOOLEAN :
        Handle("start", u, "start", hasMessage, None,
               StartEffects(hasMessage, Get(user_states, u)))

HandleMessage ==
    \E u \in Users, hasMessage \in BOOLEAN :
        Handle("handle_message", u, "text", hasMessage, None,
               HandleMessageEffects(hasMessage, Get(user_states, u)))

OnCallbackQuery ==
    \E u \in Users, hasQuery \in BOOLEAN :
      \E data \in (IF hasQuery THEN Payloads ELSE {None}) :
        Handle("on_callback_query", u, "button", hasQuery, data,
               CallbackEffects(hasQuery, Get(user_states, u), data))

Next ==
    \/ MainFail
    \/ MainRun
    \/ Start
    \/ HandleMessage
    \/ OnCallbackQuery

Spec == Init /\ [][Next]_vars

\* ------------------------------------------- concurrent dispatching
\* The same handlers when the application runs them as coroutines that
\* interleave at their awaits.

\* coroutine t has run one atom and become t1
Commit(t, t1) ==
    LET u == t.user
        atom == Performed(t, t1)
    IN
    /\ user_states' = ApplyWrites(user_states, u, atom)
    /\ serial' = IF t.read = Unread /\ t1.read # Unread
                 THEN ApplyWrites(serial, u,
                        Effects(t.kind, t.present, Get(serial, u), t.data))
                 ELSE serial
    /\ counts' = [counts EXCEPT
                    ![u].closes = @ + CountOf(atom, Write(STATE_CLOSED)),
                    ![u].gifts = @ + CountOf(atom, Reply(TEXT_2, NoKeyboard))]
    /\ tasks' = IF t1.suspended
                THEN (tasks (-) SetToBag({t})) (+) SetToBag({t1})
                ELSE tasks (-) SetToBag({t})
    /\ UNCHANGED << bot_token, phase, handlers, trace >>

\* an update is dispatched: its coroutine runs up to its first await
Dispatch(kind, u, present, data) ==
    LET t == [user |-> u, kind |-> kind, present |-> present, data |-> data,
              read |-> Unread, done |-> << >>, rest |-> << >>,
              suspended |-> FALSE]
    IN
    /\ phase = "polling"
    /\ HandlerOf(kind) \in handlers
    /\ started < MaxEvents
    /\ BagCardinality(tasks) < MaxInFlight
    /\ started' = started + 1
    /\ Commit(t, RunAtom(t, user_states))

DispatchMessage ==
    \E kind \in {"start", "text"}, u \in Users, hasMessage \in BOOLEAN :
        Dispatch(kind, u, hasMessage, None)

DispatchCallback ==
    \E u \in Users, hasQuery \in BOOLEAN :
      \E data \in (IF hasQuery THEN Payloads ELSE {None}) :
        Dispatch("button", u, hasQuery, data)

\* the awaited call of a suspended coroutine returns: it runs its next atom
Resume ==
    \E t \in BagToSet(tasks) :
        /\ started' = started
        /\ Commit(t, RunAtom(t, user_states))

\* the awaited call of a suspended coroutine raises: the handler stops
Raise ==
    \E t \in BagToSet(tasks) :
        /\ tasks' = tasks (-) SetToBag({t})
        /\ UNCHANGED << bot_token, phase, handlers, user_states, trace,
                        serial, counts, started >>

NextConc ==
    \/ MainFail
    \/ MainRun
    \/ DispatchMessage
    \/ DispatchCallback
    \/ Resume
    \/ Raise

SpecConc == Init /\ [][NextConc]_vars

\* ------------------------------------------------------ history helpers
Entries == UNION { { trace[u][i] : i \in 1..Len(trace[u]) } : u \in Users }

\* the updates that carry their message / callback query
Events == { e \in Entries : e.present }

\* the history of one user, in order
UserTrace(u) == trace[u]

\* a step that handled an update, and the record of that update
Handled == trace' # trace
NewEntry ==
    LET u == CHOOSE v \in Users : trace'[v] # trace[v]
    IN  trace'[u][Len(trace'[u])]

IsLockout(m) == m.arg = LOCKOUT /\ m.kb = NoKeyboard

\* ---------------------------------------------------------------- claims

\* C1: CLOSED is terminal. Once a user's state is CLOSED, no step (start,
\* free text, button press with any payload) writes another value to that
\* entry or removes it.
C1_ClosedIsTerminal ==
    [][\A u \in Users :
          Get(user_states, u) = STATE_CLOSED
              => /\ u \in DOMAIN user_states'
                 /\ user_states'[u] = STATE_CLOSED]_vars

\* a closed user sent start again and the update was handled
C1_Witness ==
    \E e \in Events : e.pre = STATE_CLOSED /\ e.kind = "start"

\* C2: every event handled for a CLOSED user produces the lockout message
\* as its only message output (once; none of the intro, door or gift
\* outputs) and leaves the state CLOSED.
C2_ClosedLockout ==
    \A e \in Events :
        e.pre = STATE_CLOSED
            => /\ Len(Messages(e.eff)) = 1
               /\ IsLockout(Messages(e.eff)[1])
               /\ e.post = STATE_CLOSED

\* a closed user pressed a button carrying open_intro
C2_Witness ==
    \E e \in Events :
        e.pre = STATE_CLOSED /\ e.kind = "button" /\ e.data = "open_intro"

\* C3 as stated: the first event of ANY kind for a user without an entry
\* yields state NEW and the intro output.
C3_FirstEventAnyKind ==
    \A e \in Events :
        e.pre = None
            => e.post = STATE_NEW /\ Messages(e.eff) = << IntroReply >>

\* C3 amended: the first start command or free-text message for a user
\* without an entry yields state NEW and the intro output, and nothing else.
C3_FirstMessage ==
    \A e \in Events :
        e.pre = None /\ e.kind \in {"start", "text"}
            => e.post = STATE_NEW /\ Outbound(e.eff) = << IntroReply >>

\* an unseen user's first update was a free-text message
C3_Witness ==
    \E e \in Events : e.pre = None /\ e.kind = "text"

\* C4 as stated: in DOOR_SHOWN a button press moves the state to CLOSED
\* only when its payload is open_door; every other payload, open_intro
\* included, leaves the state unchanged and produces no message.
C4_DoorShownOnlyOpenDoor ==
    \A e \in Events :
        e.pre = STATE_DOOR_SHOWN /\ e.kind = "button"
            => /\ (e.post = STATE_CLOSED => e.data = "open_door")
               /\ (e.data # "open_door"
                      => e.post = e.pre /\ Messages(e.eff) = << >>)

\* position of a state in UNSEEN < NEW < DOOR_SHOWN < CLOSED
Rank(state) ==
    CASE state = None -> 0
      [] state = STATE_NEW -> 1
      [] state = STATE_DOOR_SHOWN -> 2
      [] state = STATE_CLOSED -> 3

\* C5 as stated: no step moves a user's state to a strictly earlier state
\* of UNSEEN < NEW < DOOR_SHOWN < CLOSED.
C5_Irreversible ==
    [][\A u \in Users :
          Rank(Get(user_states', u)) >= Rank(Get(user_states, u))]_vars

\* C6: a button press carrying open_door for a user in UNSEEN or NEW is a
\* no-op: the state map is unchanged (no entry is created) and no message
\* is sent or edited.
C6_OpenDoorTooEarly ==
    [][ ( /\ Handled
          /\ NewEntry.present
          /\ NewEntry.kind = "button"
          /\ NewEntry.data = "open_door"
          /\ NewEntry.pre \in {None, STATE_NEW} )
            => /\ user_states' = user_states
               /\ Messages(NewEntry.eff) = << >> ]_vars

\* open_door was pressed by an unseen user and by a user in NEW
C6_Witness ==
    /\ \E e \in Events :
          e.kind = "button" /\ e.data = "open_door" /\ e.pre = None
    /\ \E e \in Events :
          e.kind = "button" /\ e.data = "open_door" /\ e.pre = STATE_NEW

\* the four consecutive updates of user u starting at position j of the
\* user's history are start, open_intro, open_door, start
HappyPathAt(u, j) ==
    LET t == UserTrace(u) IN
    /\ j + 3 <= Len(t)
    /\ \A k \in j..(j + 3) : t[k].present
    /\ t[j].pre = None
    /\ t[j].kind = "start"
    /\ t[j + 1].kind = "button" /\ t[j + 1].data = "open_intro"
    /\ t[j + 2].kind = "button" /\ t[j + 2].data = "open_door"
    /\ t[j + 3].kind = "start"

\* C7: for a previously unseen user the sequence start, open_intro,
\* open_door, start produces in order the intro prompt with the open_intro
\* button, the door visual with the open_door button, the four-message gift
\* sequence and then only the lockout message; the state goes NEW,
\* DOOR_SHOWN, CLOSED, CLOSED.
C7_HappyPath ==
    \A u \in Users : \A j \in 1..Len(UserTrace(u)) :
        HappyPathAt(u, j)
            => LET t == UserTrace(u) IN
               /\ Messages(t[j].eff) = << Reply(INTRO, "open_intro") >>
               /\ t[j].post = STATE_NEW
               /\ Messages(t[j + 1].eff) = << EditText(DOOR, "open_door") >>
               /\ t[j + 1].post = STATE_DOOR_SHOWN
               /\ Messages(t[j + 2].eff) =
                      << EditText(TEXT_1, NoKeyboard), Reply(TEXT_2, NoKeyboard),
                         Reply(CLOSING, NoKeyboard), Reply(FINAL, NoKeyboard) >>
               /\ t[j + 2].post = STATE_CLOSED
               /\ Messages(t[j + 3].eff) = << Reply(LOCKOUT, NoKeyboard) >>
               /\ t[j + 3].post = STATE_CLOSED

\* some user went through the whole sequence
C7_Witness ==
    \E u \in Users : HappyPathAt(u, 1)

\* the outbound calls made so far while handling updates of user v
RECURSIVE Concat(_)
Concat(t) == IF t = << >> THEN << >> ELSE Outbound(Head(t).eff) \o Concat(Tail(t))

OutLog(v) == Concat(UserTrace(v))

\* C8: handling an update of user u leaves every other user's entry
\* (its absence included) and every other user's outputs as they were.
C8_OtherUsersUntouched ==
    [][ Handled
          => \A v \in Users \ {NewEntry.user} :
                /\ (v \in DOMAIN user_states') = (v \in DOMAIN user_states)
                /\ Get(user_states', v) = Get(user_states, v)
                /\ OutLog(v)' = OutLog(v) ]_vars

\* two users hold different states: whichever of them was written last
\* was written while the other already had its entry
C8_Witness ==
    \E u \in Users : \E v \in Users \ {u} :
        /\ Get(user_states, u) = STATE_CLOSED
        /\ Get(user_states, v) = STATE_DOOR_SHOWN

\* C9: with BOT_TOKEN missing or empty, startup fails before any handler is
\* registered and before polling begins: no update is handled, no entry is
\* written, no message is sent.
C9_NoTokenNoRun ==
    (bot_token \in {None, ""})
        => /\ phase # "polling"
           /\ handlers = {}
           /\ Entries = {}
           /\ user_states = << >>

\* main() has raised on an empty token
C9_Witness ==
    phase = "failed" /\ bot_token = ""

IsReset(e) ==
    e.present /\ e.kind \in {"start", "text"} /\ e.pre = STATE_DOOR_SHOWN

IsPress(e, data) ==
    e.present /\ e.kind = "button" /\ e.data = data

\* position k of user u's history is an open_door press that follows a
\* reset at position j with no open_intro press in between
DoorPressAfterReset(u, j, k) ==
    LET t == UserTrace(u) IN
    /\ j < k /\ k <= Len(t)
    /\ IsReset(t[j])
    /\ IsPress(t[k], "open_door")
    /\ \A m \in (j + 1)..(k - 1) : ~IsPress(t[m], "open_intro")

\* C10: a start command or free-text message in DOOR_SHOWN sets the state
\* back to NEW and emits the intro prompt with the open_intro button; an
\* open_door press after that is ignored (no state change, no message)
\* until open_intro is pressed again.
C10_ResetFromDoorShown ==
    \A u \in Users :
        LET t == UserTrace(u) IN
        \A j \in 1..Len(t) :
            /\ IsReset(t[j])
                  => /\ t[j].post = STATE_NEW
                     /\ Outbound(t[j].eff) = << Reply(INTRO, "open_intro") >>
            /\ \A k \in 1..Len(t) :
                  DoorPressAfterReset(u, j, k)
                      => /\ t[k].post = t[k].pre
                         /\ t[k].post # STATE_CLOSED
                         /\ Messages(t[k].eff) = << >>

\* a free-text message reset a shown door and open_door was pressed next
C10_Witness ==
    \E u \in Users : \E j \in 1..Len(UserTrace(u)) :
        /\ DoorPressAfterReset(u, j, j + 1)
        /\ UserTrace(u)[j].kind = "text"

\* C12: for a user in UNSEEN or NEW, an open_intro press sets the state to
\* DOOR_SHOWN and its one message is the door visual with the open_door
\* button, as an edit; a start command or free-text message sets the state
\* to NEW and its one output is the intro prompt with the open_intro button.
C12_FirstSteps ==
    \A e \in Events :
        e.pre \in {None, STATE_NEW}
            => /\ IsPress(e, "open_intro")
                    => /\ e.post = STATE_DOOR_SHOWN
                       /\ Messages(e.eff) = << EditText(DOOR, "open_door") >>
               /\ e.kind \in {"start", "text"}
                    => /\ e.post = STATE_NEW
                       /\ Outbound(e.eff) = << Reply(INTRO, "open_intro") >>

\* a start was repeated in NEW and open_intro was pressed by an unseen user
C12_Witness ==
    /\ \E e \in Events : e.kind = "start" /\ e.pre = STATE_NEW
    /\ \E e \in Events : IsPress(e, "open_intro") /\ e.pre = None

\* C13: a press whose payload is neither open_intro nor open_door, in any
\* state but CLOSED, is ignored: the state map is unchanged, no entry is
\* created, no message is sent or edited.
C13_UnknownPayloadIgnored ==
    [][ ( /\ Handled
          /\ NewEntry.present
          /\ NewEntry.kind = "button"
          /\ NewEntry.data \notin {"open_intro", "open_door"}
          /\ NewEntry.pre # STATE_CLOSED )
            => /\ user_states' = user_states
               /\ Messages(NewEntry.eff) = << >> ]_vars

\* an unknown payload was pressed by an unseen user and at the shown door
C13_Witness ==
    /\ \E e \in Events : IsPress(e, "other") /\ e.pre = None
    /\ \E e \in Events : IsPress(e, "other") /\ e.pre = STATE_DOOR_SHOWN

IsGift(e) == \E i \in 1..Len(e.eff) : e.eff[i] = Reply(TEXT_2, NoKeyboard)
IsDoor(e) == \E i \in 1..Len(e.eff) : e.eff[i] = EditText(DOOR, "open_door")

\* C17: a user reaches CLOSED only from DOOR_SHOWN: no single event takes
\* a user from UNSEEN or NEW to CLOSED, and every gift sequence of a user
\* is preceded by a door visual emitted to that user.
C17_ClosedOnlyFromDoorShown ==
    \A u \in Users :
        LET t == UserTrace(u) IN
        \A k \in 1..Len(t) :
            /\ (t[k].post = STATE_CLOSED /\ t[k].pre # STATE_CLOSED)
                  => t[k].pre = STATE_DOOR_SHOWN
            /\ IsGift(t[k]) => \E j \in 1..(k - 1) : IsDoor(t[j])
            /\ (k > 1 /\ t[k].pre = STATE_CLOSED /\ t[k - 1].pre # STATE_CLOSED)
                  => t[k - 1].pre = STATE_DOOR_SHOWN

\* a user received the gift
C17_Witness ==
    \E e \in Events : IsGift(e) /\ e.post = STATE_CLOSED

\* C18: every stored value is NEW, DOOR_SHOWN or CLOSED; the set of users
\* with an entry never shrinks; an entry is created only by a start
\* command, a free-text message or an open_intro press.
C18_EntriesOnlyGrow ==
    /\ [](\A u \in DOMAIN user_states : user_states[u] \in States)
    /\ [][ /\ DOMAIN user_states \subseteq DOMAIN user_states'
           /\ DOMAIN user_states' # DOMAIN user_states
                 => /\ Handled
                    /\ \/ NewEntry.kind \in {"start", "text"}
                       \/ IsPress(NewEntry, "open_intro")
                    /\ DOMAIN user_states' = DOMAIN user_states \cup {NewEntry.user}
         ]_vars

\* entries were created by a free-text message and by an open_intro press
C18_Witness ==
    /\ \E e \in Events : e.kind = "text" /\ e.pre = None
    /\ \E e \in Events : IsPress(e, "open_intro") /\ e.pre = None
    /\ Cardinality(DOMAIN user_states) = 2

\* positions j, j + 1 of user u's history are open_intro then open_door
IntroThenDoorAt(u, j) ==
    LET t == UserTrace(u) IN
    /\ j + 1 <= Len(t)
    /\ IsPress(t[j], "open_intro")
    /\ IsPress(t[j + 1], "open_door")
    /\ t[j].pre # STATE_CLOSED

\* C19: from UNSEEN, NEW and DOOR_SHOWN alike, open_intro followed by
\* open_door (no other event of that user in between) ends in CLOSED with
\* the four-message sequence emitted.
C19_IntroThenDoorCloses ==
    \A u \in Users : \A j \in 1..Len(UserTrace(u)) :
        IntroThenDoorAt(u, j)
            => LET e == UserTrace(u)[j + 1] IN
               /\ e.post = STATE_CLOSED
               /\ Get(user_states, u) = STATE_CLOSED
               /\ Messages(e.eff) =
                      << EditText(TEXT_1, NoKeyboard), Reply(TEXT_2, NoKeyboard),
                         Reply(CLOSING, NoKeyboard), Reply(FINAL, NoKeyboard) >>

\* the two presses were made starting at the shown door
C19_Witness ==
    \E u \in Users : \E j \in 1..Len(UserTrace(u)) :
        IntroThenDoorAt(u, j) /\ UserTrace(u)[j].pre = STATE_DOOR_SHOWN

\* C20: an update without its message object (start, free text) or without
\* its callback query is dropped at the first guard: the state map is
\* unchanged and no outbound call is made.
C20_EmptyUpdateDropped ==
    [][ (Handled /\ ~NewEntry.present)
            => /\ user_states' = user_states
               /\ NewEntry.eff = << >> ]_vars

\* one update of each kind arrived without its message / callback query
C20_Witness ==
    \A kind \in {"start", "text", "button"} :
        \E e \in Entries : e.kind = kind /\ ~e.present

\* ------------------------------------- claims on interleaved handlers
\* the coroutines suspended at an await
Tasks == BagToSet(tasks)

TasksOf(u) == { t \in Tasks : t.user = u }

\* the coroutine handles an open_door press and has found the door shown
OpensDoor(t) ==
    t.kind = "button" /\ t.data = "open_door" /\ t.read = STATE_DOOR_SHOWN

\* the course of on_callback_query for open_door at the shown door
OpenDoorCourse ==
    << [op |-> "answer", arg |-> "", kb |-> NoKeyboard],
       [op |-> "read", arg |-> STATE_DOOR_SHOWN, kb |-> NoKeyboard],
       [op |-> "write", arg |-> STATE_CLOSED, kb |-> NoKeyboard],
       [op |-> "edit_message_text", arg |-> TEXT_1, kb |-> NoKeyboard],
       [op |-> "reply_text", arg |-> TEXT_2, kb |-> NoKeyboard],
       [op |-> "reply_text", arg |-> CLOSING, kb |-> NoKeyboard],
       [op |-> "reply_text", arg |-> FINAL, kb |-> NoKeyboard] >>

\* C11: open_door at the shown door writes CLOSED before any message is
\* emitted, then emits the empty-space text as an edit and the gift text,
\* the closing text and the final confirmation as new messages, in that
\* order; so from the write on the session is CLOSED, also when the handler
\* stops before all four messages are out.
C11_CloseBeforeMessages ==
    /\ \A t \in Tasks :
          OpensDoor(t)
              => /\ t.done \o t.rest = OpenDoorCourse
                 /\ Len(t.done) >= 4
                 /\ Get(user_states, t.user) = STATE_CLOSED
    /\ \A u \in Users :
          /\ counts[u].gifts >= 1 => counts[u].closes >= 1
          /\ counts[u].closes >= 1 => Get(user_states, u) = STATE_CLOSED

\* a handler wrote CLOSED and stopped before the gift text was sent: the
\* user is closed, never got the gift, and has no handler left running
C11_Witness ==
    \E u \in Users :
        /\ counts[u].closes = 1
        /\ counts[u].gifts = 0
        /\ TasksOf(u) = {}
        /\ Get(user_states, u) = STATE_CLOSED

\* C14: every button press is acknowledged exactly once, the
\* acknowledgement is the handler's first outbound call and is awaited
\* before the state is read, whatever the state and the payload; start and
\* free-text handlers never acknowledge.
C14_AnswerFirst ==
    \A t \in Tasks :
        /\ t.kind = "button"
              => /\ t.done[1] = Answer
                 /\ CountOf(t.done \o t.rest, Answer) = 1
                 /\ Calls(t.done)[1] = Answer
        /\ t.kind \in {"start", "text"}
              => CountOf(t.done \o t.rest, Answer) = 0

\* presses were acknowledged for a closed user and with an unknown payload
C14_Witness ==
    /\ \E t \in Tasks : t.kind = "button" /\ t.read = STATE_CLOSED
    /\ \E t \in Tasks : t.kind = "button" /\ t.data = "other"
                          /\ t.done = << Answer >>

IsWrite(e) == e.op = "write"

\* C15: with handlers of one user interleaving at their awaits only, each
\* handler's state read and its write are one uninterrupted step (no write
\* is left for after an await), and each user's state equals the state of
\* the same updates handled one at a time in the order of their reads.
C15_ReadWriteAtomic ==
    /\ \A t \in Tasks : SelectSeq(t.rest, IsWrite) = << >>
    /\ user_states = serial

\* two handlers of one user are suspended, having read different states
C15_Witness ==
    \E t1 \in Tasks : \E t2 \in Tasks :
        /\ t1.user = t2.user
        /\ t1.read = STATE_NEW /\ t1.kind = "button"
        /\ t2.read = STATE_DOOR_SHOWN /\ t2.kind = "text"
        /\ Get(user_states, t1.user) = STATE_NEW

\* C16: for each user the write of CLOSED happens at most once and the
\* gift text is emitted at most once, also when handlers of that user
\* interleave at their awaits.
C16_OneTime ==
    \A u \in Users : counts[u].closes <= 1 /\ counts[u].gifts <= 1

\* two open_door presses of one user are being handled at once: one found
\* the door shown, the other found it closed
C16_Witness ==
    \E t1 \in Tasks : \E t2 \in Tasks :
        /\ t1.user = t2.user
        /\ OpensDoor(t1)
        /\ t2.kind = "button" /\ t2.data = "open_door"
        /\ t2.read = STATE_CLOSED

====
